---- MODULE Spec2Model ----
(***************************************************************************)
(* The CommandHistory undo/redo engine of src/src/command-history.ts.      *)
(*                                                                         *)
(* Commands are numbered 1..MaxCmds in the order execute() constructs them.*)
(* An asynchronous method is split at its await: the step of the call runs *)
(* the synchronous prefix, a later step settles the awaited promise        *)
(* (resolved or rejected) and runs the code up to the next await.          *)
(* Besides the fields of the class the state holds the position and the    *)
(* locals of the suspended method and history variables (event, pre, log,    *)
(* invoked, absorbed, lastAdd, lastUndo, atCleanup, status, barriered)     *)
(* that record what the engine did; they never influence it.               *)
(***************************************************************************)
EXTENDS Integers, Sequences, FiniteSets, TLC

\* Number of commands execute() may construct in one behaviour.
MaxCmds == 3
\* Largest value of the levels argument of undo/redo (the smallest is -1).
MaxLevels == 2

\* The configured coalescenceWindow values: non-positive and positive.
Windows == {0, 50}

Ids == 1 .. MaxCmds
Levels == -1 .. MaxLevels

CoalescenceResult == {"IMMISCIBLE", "COALESCED", "UNDONE"}
CommandResult == {"ADD", "NOOP", "CLEAR"}

VARIABLES
    undoCommands,       \* ICommand[]: sequence of ids, top = last
    redoCommands,       \* ICommand[]: sequence of ids, top = last
    can_coalesce,       \* boolean
    timeoutId,          \* 0 = null, 1 = a pending setTimeout handle
    coalescenceWindow,  \* number, fixed at construction
    _busy,              \* boolean
    nextId,             \* number of commands constructed so far
    isNoop,             \* isNoop[c]: what c.isNoop() returns now
    coalesce,           \* coalesce[c]: c declares the optional coalesce member
    pc,                 \* "idle" or the await the in-flight method is suspended at
    ncmd,               \* execute's local ncmd while suspended (0 otherwise)
    command,            \* undo's/redo's local command while suspended (0 otherwise)
    levels,             \* undo's/redo's local levels while suspended
    event,              \* history: the step just taken
    pre,                \* history: the state at the start of the last accepted call
    log,                \* history: command operations and cleanup run by the last accepted call
    invoked,            \* history: the commands that had execute, undo or redo invoked
    absorbed,           \* history: the commands execute returned on without applying
    lastAdd,            \* history: if the latest accepted call was an execute that resolved ADD,
                        \* its command and the undo stack below it (cmd = 0 otherwise)
    lastUndo,           \* history: if the latest accepted call was an undo of one level that
                        \* completed, the stacks it started from (on = FALSE otherwise)
    atCleanup,          \* history: what the cleanup hook saw when the last accepted call ran it
    status,             \* history: for a command the engine still holds, its operation that
                        \* completed last ("none": none yet, or the command is gone)
    barriered           \* history, kept by SpecRecorded only: the top of the undo stack at the
                        \* latest coalescenceBarrier(), while the engine still holds it (0 otherwise)

hist == <<lastUndo, atCleanup, status, barriered>>
engine == <<undoCommands, redoCommands, can_coalesce, timeoutId, _busy>>
cmds == <<nextId, isNoop, coalesce>>
frame == <<pc, ncmd, command, levels>>
vars == <<undoCommands, redoCommands, can_coalesce, timeoutId, coalescenceWindow,
          _busy, nextId, isNoop, coalesce, pc, ncmd, command, levels,
          event, pre, log, invoked, absorbed, lastAdd,
          lastUndo, atCleanup, status, barriered>>

----------------------------------------------------------------------------
\* Sequence helpers (Array.prototype.pop / push / filter).

Top(s) == s[Len(s)]
Rest(s) == SubSeq(s, 1, Len(s) - 1)
Range(s) == {s[i] : i \in 1 .. Len(s)}

\* The description property of command c; "None" is the getters' sentinel.
description(c) == "cmd" \o ToString(c)

----------------------------------------------------------------------------
\* Read-only getters.

busy == _busy

undoCount == Cardinality({i \in 1 .. Len(undoCommands) : ~isNoop[undoCommands[i]]})

redoCount == Len(redoCommands)

RECURSIVE undoDescriptionFrom(_)
undoDescriptionFrom(i) ==
    IF i < 1 THEN "None"
    ELSE IF ~isNoop[undoCommands[i]] THEN description(undoCommands[i])
    ELSE undoDescriptionFrom(i - 1)

undoDescription == undoDescriptionFrom(Len(undoCommands))

redoDescription ==
    IF Len(redoCommands) > 0 THEN description(Top(redoCommands)) ELSE "None"

----------------------------------------------------------------------------
\* History bookkeeping.

Ev(kind, op, outcome, c) == [kind |-> kind, op |-> op, outcome |-> outcome, cmd |-> c]

NoAdd == [cmd |-> 0, below |-> <<>>]

NoUndo == [on |-> FALSE, undo |-> <<>>, redo |-> <<>>]

\* The undo that started at p has completed.
UndoDone(p) == IF p.levels = 1 THEN [on |-> TRUE, undo |-> p.undo, redo |-> p.redo] ELSE NoUndo

NotCalled == [called |-> FALSE, busy |-> FALSE, flag |-> FALSE, undo |-> <<>>, redo |-> <<>>]

\* The commands the engine holds a reference to: on a stack or in a local of
\* the suspended method. A command that is not held never comes back.
Held == Range(undoCommands) \cup Range(redoCommands) \cup {command, ncmd}

\* The step leaves the statuses st and the barriered command b, forgetting
\* the commands that are no longer held.
Remember(st, b) ==
    LET held == Held' IN
    /\ status' = [c \in Ids |-> IF c \in held THEN st[c] ELSE "none"]
    /\ barriered' = IF b \in held THEN b ELSE 0

Snapshot(lv) ==
    [undo |-> undoCommands, redo |-> redoCommands, flag |-> can_coalesce,
     noop |-> isNoop, levels |-> lv, lastAdd |-> lastAdd, last |-> NoUndo]

\* The history of a call that runs no command operation (pop, clear).
NoCall ==
    [undo |-> <<>>, redo |-> <<>>, flag |-> FALSE,
     noop |-> [c \in Ids |-> FALSE], levels |-> 0, lastAdd |-> NoAdd, last |-> NoUndo]

Invoke(c) == invoked \cup {c}

\* A call made while _busy: the guard throws before anything else runs.
Rejected(op) ==
    /\ event' = Ev("call", op, "rejected", 0)
    /\ UNCHANGED <<engine, coalescenceWindow, cmds, frame, pre, log, invoked, absorbed, lastAdd, hist>>

----------------------------------------------------------------------------
Init ==
    /\ undoCommands = <<>>
    /\ redoCommands = <<>>
    /\ can_coalesce = TRUE
    /\ timeoutId = 0
    /\ coalescenceWindow \in Windows
    /\ _busy = FALSE
    /\ nextId = 0
    /\ isNoop = [c \in Ids |-> FALSE]
    /\ coalesce = [c \in Ids |-> FALSE]
    /\ pc = "idle"
    /\ ncmd = 0
    /\ command = 0
    /\ levels = 0
    /\ event = Ev("init", "constructor", "done", 0)
    /\ pre = NoCall
    /\ log = <<>>
    /\ invoked = {}
    /\ absorbed = {}
    /\ lastAdd = NoAdd
    /\ lastUndo = NoUndo
    /\ atCleanup = NotCalled
    /\ status = [c \in Ids |-> "none"]
    /\ barriered = 0

----------------------------------------------------------------------------
\* coalescenceBarrier(): a bare flag assignment, no busy guard.
coalescenceBarrier ==
    /\ can_coalesce' = FALSE
    /\ event' = Ev("call", "coalescenceBarrier", "done", 0)
    /\ UNCHANGED <<undoCommands, redoCommands, timeoutId, _busy, coalescenceWindow,
                   cmds, frame, pre, log, invoked, absorbed, lastAdd, hist>>

\* The same call, recording the command it is to keep from coalescing.
coalescenceBarrierRecorded ==
    /\ can_coalesce' = FALSE
    /\ event' = Ev("call", "coalescenceBarrier", "done", 0)
    /\ barriered' = IF Len(undoCommands) > 0 THEN Top(undoCommands) ELSE 0
    /\ UNCHANGED <<undoCommands, redoCommands, timeoutId, _busy, coalescenceWindow,
                   cmds, frame, pre, log, invoked, absorbed, lastAdd,
                   lastUndo, atCleanup, status>>

\* The callback of the setTimeout armed at the end of execute.
timerFires_keepsFlag ==
    /\ timeoutId # 0
    /\ timeoutId' = 0
    /\ event' = Ev("timer", "timeout", "done", 0)
    /\ UNCHANGED <<undoCommands, redoCommands, can_coalesce, _busy, coalescenceWindow,
                   cmds, frame, pre, log, invoked, absorbed, lastAdd, hist>>

timerFires ==
    /\ timeoutId # 0
    /\ can_coalesce' = FALSE
    /\ timeoutId' = 0
    /\ event' = Ev("timer", "timeout", "done", 0)
    /\ UNCHANGED <<undoCommands, redoCommands, _busy, coalescenceWindow,
                   cmds, frame, pre, log, invoked, absorbed, lastAdd, hist>>

\* pop(): with the guard off, as if the busy check were missing.
pop_unguarded ==
    /\ undoCommands' = IF Len(undoCommands) > 0 THEN Rest(undoCommands) ELSE undoCommands
    /\ event' = Ev("call", "pop", "done", 0)
    /\ pre' = NoCall
    /\ log' = <<>>
    /\ lastAdd' = NoAdd
    /\ lastUndo' = NoUndo
    /\ atCleanup' = NotCalled
    /\ UNCHANGED <<redoCommands, can_coalesce, timeoutId, _busy, coalescenceWindow,
                   cmds, frame, invoked, absorbed>>
    /\ Remember(status, barriered)

pop ==
    IF _busy THEN Rejected("pop")
    ELSE
        /\ undoCommands' = IF Len(undoCommands) > 0 THEN Rest(undoCommands) ELSE undoCommands
        /\ event' = Ev("call", "pop", "done", 0)
        /\ pre' = NoCall
        /\ log' = <<>>
        /\ lastAdd' = NoAdd
        /\ lastUndo' = NoUndo
        /\ atCleanup' = NotCalled
        /\ UNCHANGED <<redoCommands, can_coalesce, timeoutId, _busy, coalescenceWindow,
                       cmds, frame, invoked, absorbed>>
        /\ Remember(status, barriered)

clear ==
    IF _busy THEN Rejected("clear")
    ELSE
        /\ undoCommands' = <<>>
        /\ redoCommands' = <<>>
        /\ event' = Ev("call", "clear", "done", 0)
        /\ pre' = NoCall
        /\ log' = <<>>
        /\ lastAdd' = NoAdd
        /\ lastUndo' = NoUndo
        /\ atCleanup' = NotCalled
        /\ UNCHANGED <<can_coalesce, timeoutId, _busy, coalescenceWindow,
                       cmds, frame, invoked, absorbed>>
        /\ Remember(status, barriered)

----------------------------------------------------------------------------
\* The cleanup hook as the tails of undo and redo call it: after the loop has
\* left the stacks undos/redos and after can_coalesce = false, before
\* _busy = false. The record is what the hook can observe.
cleanup_afterRelease(undos, redos) ==
    [called |-> TRUE, busy |-> FALSE, flag |-> FALSE, undo |-> undos, redo |-> redos]

cleanup(undos, redos) ==
    [called |-> TRUE, busy |-> TRUE, flag |-> FALSE, undo |-> undos, redo |-> redos]

----------------------------------------------------------------------------
\* undo(levels)

\* The while loop of undo up to its next await: pops entries, dropping those
\* that are no-ops now, until it holds a command to reverse (command # 0) or
\* the loop condition fails (command = 0).
RECURSIVE undoLoop_noSkip(_, _)
undoLoop_noSkip(undos, lv) ==
    IF lv > 0 /\ Len(undos) > 0
    THEN [undos |-> Rest(undos), command |-> Top(undos)]
    ELSE [undos |-> undos, command |-> 0]

RECURSIVE undoLoop_eager(_, _)
undoLoop_eager(undos, lv) ==
    IF Len(undos) > 0 /\ (lv > 0 \/ isNoop[Top(undos)])
    THEN IF isNoop[Top(undos)]
         THEN undoLoop_eager(Rest(undos), lv)
         ELSE [undos |-> Rest(undos), command |-> Top(undos)]
    ELSE [undos |-> undos, command |-> 0]

RECURSIVE undoLoop(_, _)
undoLoop(undos, lv) ==
    IF lv > 0 /\ Len(undos) > 0
    THEN IF isNoop[Top(undos)]
         THEN undoLoop(Rest(undos), lv)
         ELSE [undos |-> Rest(undos), command |-> Top(undos)]
    ELSE [undos |-> undos, command |-> 0]

\* From the loop head with lv levels left: either suspend in await
\* command.undo(), or leave the loop and run the tail (barrier, cleanup,
\* release of _busy).
undoFrom_noBarrier(undos, redos, lv, lg, kind) ==
    LET r == undoLoop(undos, lv) IN
    /\ undoCommands' = r.undos
    /\ redoCommands' = redos
    /\ IF r.command # 0
       THEN /\ pc' = "undo_await"
            /\ command' = r.command
            /\ levels' = lv
            /\ invoked' = Invoke(r.command)
            /\ log' = Append(lg, <<"undo", r.command>>)
            /\ _busy' = TRUE
            /\ event' = Ev(kind, "undo", "pending", r.command)
            /\ lastUndo' = NoUndo
            /\ atCleanup' = NotCalled
            /\ UNCHANGED can_coalesce
       ELSE /\ pc' = "idle"
            /\ command' = 0
            /\ levels' = 0
            /\ UNCHANGED can_coalesce
            /\ log' = Append(lg, <<"cleanup", 0>>)
            /\ _busy' = FALSE
            /\ event' = Ev(kind, "undo", "done", 0)
            /\ lastUndo' = UndoDone(pre')
            /\ atCleanup' = cleanup(r.undos, redos)
            /\ UNCHANGED invoked
    /\ UNCHANGED <<timeoutId, coalescenceWindow, cmds, ncmd, absorbed>>

undoFrom(undos, redos, lv, lg, kind) ==
    LET r == undoLoop(undos, lv) IN
    /\ undoCommands' = r.undos
    /\ redoCommands' = redos
    /\ IF r.command # 0
       THEN /\ pc' = "undo_await"
            /\ command' = r.command
            /\ levels' = lv
            /\ invoked' = Invoke(r.command)
            /\ log' = Append(lg, <<"undo", r.command>>)
            /\ _busy' = TRUE
            /\ event' = Ev(kind, "undo", "pending", r.command)
            /\ lastUndo' = NoUndo
            /\ atCleanup' = NotCalled
            /\ UNCHANGED can_coalesce
       ELSE /\ pc' = "idle"
            /\ command' = 0
            /\ levels' = 0
            /\ can_coalesce' = FALSE
            /\ log' = Append(lg, <<"cleanup", 0>>)
            /\ _busy' = FALSE
            /\ event' = Ev(kind, "undo", "done", 0)
            /\ lastUndo' = UndoDone(pre')
            /\ atCleanup' = cleanup(r.undos, redos)
            /\ UNCHANGED invoked
    /\ UNCHANGED <<timeoutId, coalescenceWindow, cmds, ncmd, absorbed>>

undo(lv) ==
    IF _busy THEN Rejected("undo")
    ELSE /\ pre' = Snapshot(lv)
         /\ lastAdd' = NoAdd
         /\ undoFrom(undoCommands, redoCommands, lv, <<>>, "call")
         /\ Remember(status, barriered)

\* await command.undo() resolves: push to the redo stack, levels--, loop.
undoResolves_wrongStack ==
    /\ pc = "undo_await"
    /\ UNCHANGED <<pre, lastAdd>>
    /\ undoFrom(Append(undoCommands, command), redoCommands, levels - 1, log, "settle")
    /\ Remember([status EXCEPT ![command] = "reversed"], barriered)

undoResolves ==
    /\ pc = "undo_await"
    /\ UNCHANGED <<pre, lastAdd>>
    /\ undoFrom(undoCommands, Append(redoCommands, command), levels - 1, log, "settle")
    /\ Remember([status EXCEPT ![command] = "reversed"], barriered)

\* await command.undo() rejects: the exception leaves undo at once.
undoRejects ==
    /\ pc = "undo_await"
    /\ pc' = "idle"
    /\ command' = 0
    /\ levels' = 0
    /\ event' = Ev("settle", "undo", "failed", command)
    /\ UNCHANGED <<engine, coalescenceWindow, cmds, ncmd, pre, log, invoked, absorbed, lastAdd,
                   lastUndo, atCleanup>>
    /\ Remember(status, barriered)

----------------------------------------------------------------------------
\* redo(levels)

\* From the loop head with lv levels left: either pop the top of the redo
\* stack and suspend in await command.redo() (no isNoop test here), or leave
\* the loop and run the tail.
redoFrom(undos, redos, lv, lg, kind) ==
    /\ undoCommands' = undos
    /\ IF lv > 0 /\ Len(redos) > 0
       THEN /\ redoCommands' = Rest(redos)
            /\ pc' = "redo_await"
            /\ command' = Top(redos)
            /\ levels' = lv
            /\ invoked' = Invoke(Top(redos))
            /\ log' = Append(lg, <<"redo", Top(redos)>>)
            /\ _busy' = TRUE
            /\ event' = Ev(kind, "redo", "pending", Top(redos))
            /\ atCleanup' = NotCalled
            /\ UNCHANGED can_coalesce
       ELSE /\ redoCommands' = redos
            /\ pc' = "idle"
            /\ command' = 0
            /\ levels' = 0
            /\ can_coalesce' = FALSE
            /\ log' = Append(lg, <<"cleanup", 0>>)
            /\ _busy' = FALSE
            /\ event' = Ev(kind, "redo", "done", 0)
            /\ atCleanup' = cleanup(undos, redos)
            /\ UNCHANGED invoked
    /\ lastUndo' = NoUndo
    /\ UNCHANGED <<timeoutId, coalescenceWindow, cmds, ncmd, absorbed>>

redo(lv) ==
    IF _busy THEN Rejected("redo")
    ELSE /\ pre' = [Snapshot(lv) EXCEPT !.last = IF lv = 1 THEN lastUndo ELSE NoUndo]
         /\ lastAdd' = NoAdd
         /\ redoFrom(undoCommands, redoCommands, lv, <<>>, "call")
         /\ Remember(status, barriered)

\* await command.redo() resolves: push to the undo stack, levels--, loop.
redoResolves_noDecrement ==
    /\ pc = "redo_await"
    /\ UNCHANGED <<pre, lastAdd>>
    /\ redoFrom(Append(undoCommands, command), redoCommands, levels, log, "settle")
    /\ Remember([status EXCEPT ![command] = "applied"], barriered)

redoResolves ==
    /\ pc = "redo_await"
    /\ UNCHANGED <<pre, lastAdd>>
    /\ redoFrom(Append(undoCommands, command), redoCommands, levels - 1, log, "settle")
    /\ Remember([status EXCEPT ![command] = "applied"], barriered)

\* await command.redo() rejects: the exception leaves redo at once.
redoRejects ==
    /\ pc = "redo_await"
    /\ pc' = "idle"
    /\ command' = 0
    /\ levels' = 0
    /\ event' = Ev("settle", "redo", "failed", command)
    /\ UNCHANGED <<engine, coalescenceWindow, cmds, ncmd, pre, log, invoked, absorbed, lastAdd,
                   lastUndo, atCleanup>>
    /\ Remember(status, barriered)

----------------------------------------------------------------------------
\* execute(ctor, ...args)

\* The switch on lcmd.coalesce(ncmd), given the stack left by the pop of lcmd:
\* the undo stack it leaves and whether execute returns there.
onCoalesce_dropCoalesced(res, rest, lcmd) ==
    CASE res = "IMMISCIBLE" -> [undo |-> Append(rest, lcmd), return |-> FALSE]
      [] res = "COALESCED"  -> [undo |-> rest, return |-> TRUE]
      [] res = "UNDONE"     -> [undo |-> rest, return |-> TRUE]

onCoalesce_keepUndone(res, rest, lcmd) ==
    CASE res = "IMMISCIBLE" -> [undo |-> Append(rest, lcmd), return |-> FALSE]
      [] res = "COALESCED"  -> [undo |-> Append(rest, lcmd), return |-> TRUE]
      [] res = "UNDONE"     -> [undo |-> Append(rest, lcmd), return |-> TRUE]

onCoalesce(res, rest, lcmd) ==
    CASE res = "IMMISCIBLE" -> [undo |-> Append(rest, lcmd), return |-> FALSE]
      [] res = "COALESCED"  -> [undo |-> Append(rest, lcmd), return |-> TRUE]
      [] res = "UNDONE"     -> [undo |-> rest, return |-> TRUE]

\* The switch on await ncmd.execute(): the stacks and the flag it leaves.
onResult_addKeepsRedo(res, n) ==
    CASE res = "ADD"   -> [undo |-> Append(undoCommands, n), redo |-> redoCommands, flag |-> TRUE]
      [] res = "CLEAR" -> [undo |-> <<>>, redo |-> <<>>, flag |-> FALSE]
      [] res = "NOOP"  -> [undo |-> undoCommands, redo |-> redoCommands, flag |-> can_coalesce]

onResult_clearKeepsRedo(res, n) ==
    CASE res = "ADD"   -> [undo |-> Append(undoCommands, n), redo |-> <<>>, flag |-> TRUE]
      [] res = "CLEAR" -> [undo |-> <<>>, redo |-> redoCommands, flag |-> FALSE]
      [] res = "NOOP"  -> [undo |-> undoCommands, redo |-> redoCommands, flag |-> can_coalesce]

onResult_noopWipesRedo(res, n) ==
    CASE res = "ADD"   -> [undo |-> Append(undoCommands, n), redo |-> <<>>, flag |-> TRUE]
      [] res = "CLEAR" -> [undo |-> <<>>, redo |-> <<>>, flag |-> FALSE]
      [] res = "NOOP"  -> [undo |-> undoCommands, redo |-> <<>>, flag |-> can_coalesce]

onResult(res, n) ==
    CASE res = "ADD"   -> [undo |-> Append(undoCommands, n), redo |-> <<>>, flag |-> TRUE]
      [] res = "CLEAR" -> [undo |-> <<>>, redo |-> <<>>, flag |-> FALSE]
      [] res = "NOOP"  -> [undo |-> undoCommands, redo |-> redoCommands, flag |-> can_coalesce]

\* The timer tail: clearTimeout of a pending timer, then either a fresh
\* timer, or, with a non-positive window, the flag is cleared at once.
timerTail_keepsFlag(flag) ==
    IF coalescenceWindow > 0
    THEN [flag |-> flag, timeoutId |-> 1]
    ELSE [flag |-> flag, timeoutId |-> 0]

timerTail(flag) ==
    IF coalescenceWindow > 0
    THEN [flag |-> flag, timeoutId |-> 1]
    ELSE [flag |-> FALSE, timeoutId |-> 0]

\* The call of execute up to its first await or return. cap: whether the
\* constructed command declares coalesce. When the incumbent is consulted,
\* res is what its coalesce returns and nn what its isNoop() returns from
\* then on: coalesce is caller code that may alter the receiver, whatever
\* it returns. The returns of the COALESCED and UNDONE cases leave execute
\* before the release of _busy and before the timer tail.
execute(cap) ==
    IF _busy THEN Rejected("execute")
    ELSE
        /\ nextId < MaxCmds
        /\ LET n == nextId + 1 IN
           /\ nextId' = n
           /\ coalesce' = [coalesce EXCEPT ![n] = cap]
           /\ _busy' = TRUE
           /\ IF can_coalesce /\ Len(undoCommands) > 0 /\ coalesce[Top(undoCommands)]
              THEN \E res \in CoalescenceResult, nn \in BOOLEAN :
                     LET lcmd == Top(undoCommands)
                         r == onCoalesce(res, Rest(undoCommands), lcmd)
                     IN  /\ pre' = Snapshot(0)
                         /\ isNoop' = [isNoop EXCEPT ![lcmd] = nn]
                         /\ undoCommands' = r.undo
                         /\ IF r.return
                            THEN /\ pc' = "idle"
                                 /\ ncmd' = 0
                                 /\ absorbed' = absorbed \cup {n}
                                 /\ UNCHANGED invoked
                                 /\ log' = <<<<"coalesce", lcmd>>>>
                                 /\ event' = Ev("call", "execute", res, n)
                            ELSE /\ pc' = "execute_await"
                                 /\ ncmd' = n
                                 /\ invoked' = Invoke(n)
                                 /\ UNCHANGED absorbed
                                 /\ log' = <<<<"coalesce", lcmd>>, <<"execute", n>>>>
                                 /\ event' = Ev("call", "execute", "pending", n)
              ELSE /\ pre' = Snapshot(0)
                   /\ pc' = "execute_await"
                   /\ ncmd' = n
                   /\ invoked' = Invoke(n)
                   /\ log' = <<<<"execute", n>>>>
                   /\ event' = Ev("call", "execute", "pending", n)
                   /\ UNCHANGED <<undoCommands, isNoop, absorbed>>
        /\ lastAdd' = NoAdd
        /\ lastUndo' = NoUndo
        /\ atCleanup' = NotCalled
        /\ UNCHANGED <<redoCommands, can_coalesce, timeoutId, coalescenceWindow,
                       command, levels>>
        /\ Remember(status, barriered)

\* await ncmd.execute() resolves with res: the result switch, the release
\* of _busy and the timer tail.
executeResolves(res) ==
    /\ pc = "execute_await"
    /\ LET r == onResult(res, ncmd)
           t == timerTail(r.flag)
       IN  /\ undoCommands' = r.undo
           /\ redoCommands' = r.redo
           /\ can_coalesce' = t.flag
           /\ timeoutId' = t.timeoutId
    /\ _busy' = FALSE
    /\ pc' = "idle"
    /\ ncmd' = 0
    /\ event' = Ev("settle", "execute", res, ncmd)
    /\ lastAdd' = IF res = "ADD" THEN [cmd |-> ncmd, below |-> undoCommands] ELSE lastAdd
    /\ UNCHANGED <<coalescenceWindow, cmds, command, levels, pre, log, invoked, absorbed,
                   lastUndo, atCleanup>>
    /\ Remember([status EXCEPT ![ncmd] = "applied"], barriered)

\* await ncmd.execute() rejects: the exception leaves execute at once.
executeRejects ==
    /\ pc = "execute_await"
    /\ pc' = "idle"
    /\ ncmd' = 0
    /\ event' = Ev("settle", "execute", "failed", ncmd)
    /\ UNCHANGED <<engine, coalescenceWindow, cmds, command, levels, pre, log, invoked, absorbed, lastAdd,
                   lastUndo, atCleanup>>
    /\ Remember(status, barriered)

----------------------------------------------------------------------------
Next ==
    \/ \E cap \in BOOLEAN : execute(cap)
    \/ \E res \in CommandResult : executeResolves(res)
    \/ executeRejects
    \/ \E lv \in Levels : undo(lv)
    \/ undoResolves
    \/ undoRejects
    \/ \E lv \in Levels : redo(lv)
    \/ redoResolves
    \/ redoRejects
    \/ pop
    \/ clear
    \/ coalescenceBarrier
    \/ timerFires

Spec == Init /\ [][Next]_vars

\* The same engine with its coalescenceBarrier() calls recorded in barriered.
NextRecorded ==
    \/ \E cap \in BOOLEAN : execute(cap)
    \/ \E res \in CommandResult : executeResolves(res)
    \/ executeRejects
    \/ \E lv \in Levels : undo(lv)
    \/ undoResolves
    \/ undoRejects
    \/ \E lv \in Levels : redo(lv)
    \/ redoResolves
    \/ redoRejects
    \/ pop
    \/ clear
    \/ coalescenceBarrierRecorded
    \/ timerFires

SpecRecorded == Init /\ [][NextRecorded]_vars

TypeOK ==
    /\ Range(undoCommands) \subseteq 1 .. nextId
    /\ Range(redoCommands) \subseteq 1 .. nextId
    /\ can_coalesce \in BOOLEAN
    /\ timeoutId \in {0, 1}
    /\ _busy \in BOOLEAN
    /\ nextId \in 0 .. MaxCmds
    /\ pc \in {"idle", "execute_await", "undo_await", "redo_await"}
    /\ pc # "idle" => _busy

----------------------------------------------------------------------------
\* Vocabulary of the properties.

Min(a, b) == IF a < b THEN a ELSE b
Max(a, b) == IF a > b THEN a ELSE b

OnStack(c) == c \in Range(undoCommands) \cup Range(redoCommands)

\* Positions of pre.undo whose command was not a no-op when the call began,
\* and undoCount at that moment.
PreNonNoop == {i \in 1 .. Len(pre.undo) : ~pre.noop[pre.undo[i]]}
PreUndoCount == Cardinality(PreNonNoop)

\* The event of an execute/undo/redo whose promise resolved.
ResolvedOutcomes == {"ADD", "CLEAR", "NOOP", "COALESCED", "UNDONE", "done"}
Resolved == event.op \in {"execute", "undo", "redo"} /\ event.outcome \in ResolvedOutcomes

ExecuteGave(outcome) == event.op = "execute" /\ event.outcome = outcome

\* The log of the current call holds no coalesce.
NoCoalesceInLog == \A i \in 1 .. Len(log) : log[i][1] # "coalesce"

----------------------------------------------------------------------------
\* C1: whenever the promise of execute, undo or redo resolves, busy is false
\* (so the next execute/undo/redo/pop/clear is accepted), on every path of
\* execute including COALESCED and UNDONE.
C1_ExclusivityReleased == Resolved => ~busy

----------------------------------------------------------------------------
\* C2: a call of execute, undo, redo, pop or clear made while busy is true is
\* rejected and changes nothing: stacks, flag, busy, timer, the suspended
\* operation, and no command is constructed or has an operation invoked.
C2_BusyCallsRejected ==
    [][ (_busy /\ event'.kind = "call"
               /\ event'.op \in {"execute", "undo", "redo", "pop", "clear"})
        => (event'.outcome = "rejected"
            /\ UNCHANGED <<engine, cmds, frame, invoked, log, absorbed>>) ]_vars

\* A pop rejected while an undo is suspended and the undo stack is not empty.
C2_Witness ==
    /\ event = Ev("call", "pop", "rejected", 0)
    /\ pc = "undo_await"
    /\ undoCommands # <<>>

----------------------------------------------------------------------------
\* C3 (amended): after an execute that resolves ADD the new command is the
\* top of the undo stack, below it is the undo stack of before the call, the
\* redo stack is empty, undoCount is the number of entries that are not
\* no-ops now, and the flag is ELIGIBLE exactly when the window is positive.
C3_AddPushes ==
    ExecuteGave("ADD") =>
        /\ undoCommands = Append(pre.undo, event.cmd)
        /\ redoCommands = <<>>
        /\ redoCount = 0
        /\ undoCount = Cardinality({c \in Range(undoCommands) : ~isNoop[c]})
        /\ can_coalesce = (coalescenceWindow > 0)

\* C3 as stated: the same, with the flag ELIGIBLE whatever the window.
C3_Original ==
    ExecuteGave("ADD") =>
        /\ undoCommands = Append(pre.undo, event.cmd)
        /\ redoCommands = <<>>
        /\ redoCount = 0
        /\ undoCount = Cardinality({c \in Range(undoCommands) : ~isNoop[c]})
        /\ can_coalesce = TRUE

\* An ADD on top of a non-empty undo stack that wiped a non-empty redo stack.
C3_Witness ==
    /\ ExecuteGave("ADD")
    /\ coalescenceWindow > 0
    /\ pre.undo # <<>>
    /\ pre.redo # <<>>

----------------------------------------------------------------------------
\* C4: after an execute that resolves CLEAR both stacks are empty, whatever
\* they held, and the flag is BARRIERED.
C4_ClearWipes ==
    ExecuteGave("CLEAR") =>
        /\ undoCommands = <<>>
        /\ redoCommands = <<>>
        /\ undoCount = 0
        /\ redoCount = 0
        /\ ~can_coalesce

\* A CLEAR that found entries on both stacks.
C4_Witness ==
    /\ ExecuteGave("CLEAR")
    /\ pre.undo # <<>>
    /\ pre.redo # <<>>

----------------------------------------------------------------------------
\* The step in which a suspended execute resumes with NOOP.
NoopSettles ==
    /\ pc = "execute_await"
    /\ event'.kind = "settle"
    /\ event'.op = "execute"
    /\ event'.outcome = "NOOP"

\* C5 (amended): an execute that resolves NOOP leaves both stacks as they
\* were before the call; it leaves the flag as it was when the window is
\* positive, and BARRIERED when the window is not positive.
C5_NoopFrame ==
    [][ NoopSettles =>
          /\ undoCommands' = pre.undo /\ undoCommands' = undoCommands
          /\ redoCommands' = pre.redo /\ redoCommands' = redoCommands
          /\ can_coalesce' = (can_coalesce /\ coalescenceWindow > 0) ]_vars

\* C5 as stated: stacks and flag as they were, for every window.
C5_Original ==
    [][ NoopSettles =>
          /\ undoCommands' = pre.undo /\ undoCommands' = undoCommands
          /\ redoCommands' = pre.redo /\ redoCommands' = redoCommands
          /\ can_coalesce' = can_coalesce ]_vars

\* A NOOP executed after an undo: the redo stack is kept.
C5_Witness ==
    /\ ExecuteGave("NOOP")
    /\ coalescenceWindow > 0
    /\ undoCommands # <<>>
    /\ redoCommands # <<>>
    /\ redoCommands = pre.redo

----------------------------------------------------------------------------
\* C6 (amended): when the incumbent's coalesce returns COALESCED the undo
\* stack holds the same commands in the same order as before the call, the
\* redo stack is unchanged, the new command is on neither stack and never has
\* execute/undo/redo invoked; undoCount stays 1 when it was 1 provided the
\* coalescence did not change the incumbent's no-op status.
C6_CoalescedKeeps ==
    /\ ExecuteGave("COALESCED") =>
          /\ pre.flag /\ pre.undo # <<>>
          /\ undoCommands = pre.undo
          /\ redoCommands = pre.redo
          /\ ~OnStack(event.cmd)
          /\ event.cmd \notin invoked
          /\ log = << <<"coalesce", Top(pre.undo)>> >>
          /\ (PreUndoCount = 1 /\ isNoop[Top(pre.undo)] = pre.noop[Top(pre.undo)])
                => undoCount = 1
    /\ \A c \in absorbed : c \notin invoked /\ ~OnStack(c) /\ c # ncmd /\ c # command

\* C6 as stated: undoCount stays 1 when it was 1, unconditionally.
C6_Original ==
    ExecuteGave("COALESCED") =>
        /\ undoCommands = pre.undo
        /\ redoCommands = pre.redo
        /\ ~OnStack(event.cmd)
        /\ event.cmd \notin invoked
        /\ PreUndoCount = 1 => undoCount = 1

\* A command absorbed by the top of an undo stack of two.
C6_Witness ==
    /\ ExecuteGave("COALESCED")
    /\ Len(undoCommands) = 2
    /\ undoCount = 2

----------------------------------------------------------------------------
\* C7: when execute(X) resolved ADD and the next call, execute(Y), finds
\* X.coalesce(Y) = UNDONE, the undo stack is the one of before X was added,
\* X and Y are on no stack, redoCount = 0 and no execute/undo/redo of Y is
\* invoked.
C7_UndoneDropsBoth ==
    (ExecuteGave("UNDONE") /\ pre.lastAdd.cmd # 0) =>
        /\ Top(pre.undo) = pre.lastAdd.cmd
        /\ undoCommands = pre.lastAdd.below
        /\ ~OnStack(pre.lastAdd.cmd)
        /\ ~OnStack(event.cmd)
        /\ redoCount = 0
        /\ event.cmd \notin invoked
        /\ log = << <<"coalesce", pre.lastAdd.cmd>> >>

\* X was added on top of a non-empty undo stack and then cancelled by Y.
C7_Witness ==
    /\ ExecuteGave("UNDONE")
    /\ pre.lastAdd.cmd # 0
    /\ pre.lastAdd.below # <<>>

----------------------------------------------------------------------------
\* A (command 1) was added, the next call executed B (command 2) and A
\* absorbed it, with a positive window.
AfterAB ==
    /\ coalescenceWindow > 0
    /\ undoCommands = <<1>>
    /\ absorbed = {2}
    /\ pre.lastAdd.cmd = 1
    /\ ~isNoop[1]

\* C8: after A (ADD) and B absorbed by A, undoCount = 1 and redoDescription
\* is "None"; once the timer has fired, execute C is accepted, is not offered
\* to A.coalesce, and when it resolves ADD undoCount is 2.
C8_Scenario ==
    [][ /\ AfterAB' => (undoCount' = 1 /\ redoDescription' = "None")
        /\ (AfterAB /\ timeoutId = 0 /\ event'.kind = "call" /\ event'.op = "execute")
              => (event'.outcome = "pending" /\ log' = << <<"execute", 3>> >>)
        /\ (AfterAB /\ event'.kind = "settle" /\ event'.outcome = "ADD")
              => undoCount' = 2 ]_vars

----------------------------------------------------------------------------
\* The top n positions of pre.undo that hold a non-no-op.
TopN(n) == {i \in PreNonNoop : Cardinality({j \in PreNonNoop : j >= i}) <= n}

\* The commands of pre.undo at the positions S, from the top downward.
RECURSIVE Downward(_)
Downward(S) ==
    IF S = {} THEN <<>>
    ELSE LET m == CHOOSE x \in S : \A y \in S : y <= x
         IN  <<pre.undo[m]>> \o Downward(S \ {m})

RECURSIVE Tagged(_, _)
Tagged(op, s) == IF s = <<>> THEN <<>> ELSE << <<op, Head(s)>> >> \o Tagged(op, Tail(s))

\* What undo(pre.levels) is to leave on the undo stack.
UndoLeaves ==
    IF pre.levels <= 0 THEN pre.undo
    ELSE IF pre.levels > PreUndoCount THEN <<>>
    ELSE LET low == CHOOSE x \in TopN(pre.levels) : \A y \in TopN(pre.levels) : x <= y
         IN  SubSeq(pre.undo, 1, low - 1)

\* C9: a completed undo(n) reverses exactly min(n, k) commands (none when
\* n <= 0), k the number of non-no-op entries: the topmost ones, each once,
\* from the top downward, pushed onto the redo stack in that order; the
\* no-ops it pops are dropped, not reversed, not pushed and cost no level.
\* After A (ADD), B (ADD), undo(1): undoCount = 1, redoCount = 1 and
\* redoDescription = B.description.
C9_UndoReverses ==
    (event.op = "undo" /\ event.outcome = "done") =>
        LET reversed == Downward(TopN(pre.levels)) IN
        /\ Len(reversed) = Min(Max(pre.levels, 0), PreUndoCount)
        /\ redoCommands = pre.redo \o reversed
        /\ undoCommands = UndoLeaves
        /\ log = Tagged("undo", reversed) \o << <<"cleanup", 0>> >>
        /\ isNoop = pre.noop
        /\ (pre.undo = <<1, 2>> /\ pre.redo = <<>> /\ PreUndoCount = 2 /\ pre.levels = 1)
              => (undoCount = 1 /\ redoCount = 1 /\ redoDescription = description(2))

\* undo(2) on [A, B, C] with B a no-op: C and A reversed, B dropped.
C9_Witness ==
    /\ event.op = "undo" /\ event.outcome = "done"
    /\ pre.levels = 2
    /\ Len(pre.undo) = 3
    /\ pre.noop[pre.undo[2]] /\ ~pre.noop[pre.undo[1]] /\ ~pre.noop[pre.undo[3]]
    /\ redoCommands = <<pre.undo[3], pre.undo[1]>>
    /\ undoCommands = <<>>

----------------------------------------------------------------------------
\* undo(1) has completed on an undo stack [A, B], A a no-op and B not.
NoopBelowTop ==
    /\ event.op = "undo" /\ event.outcome = "done"
    /\ pre.levels = 1
    /\ Len(pre.undo) = 2
    /\ pre.noop[pre.undo[1]]
    /\ ~pre.noop[pre.undo[2]]

\* C10 (amended): undo(1) on [A, B], A a no-op and B not, reverses B and
\* moves it to the redo stack; A is not reversed and not moved to the redo
\* stack, it stays on the undo stack; undoCount = 0.
C10_NoopBelowStays ==
    NoopBelowTop =>
        /\ redoCommands = Append(pre.redo, pre.undo[2])
        /\ log = << <<"undo", pre.undo[2]>>, <<"cleanup", 0>> >>
        /\ undoCommands = <<pre.undo[1]>>
        /\ pre.undo[1] \notin Range(redoCommands)
        /\ undoCount = 0

\* C10 as stated: A is dropped, on neither stack afterwards.
C10_Original ==
    NoopBelowTop =>
        /\ redoCommands = Append(pre.redo, pre.undo[2])
        /\ log = << <<"undo", pre.undo[2]>>, <<"cleanup", 0>> >>
        /\ ~OnStack(pre.undo[1])
        /\ undoCount = 0

\* The case is reached, with B on the redo stack.
C10_Witness ==
    /\ NoopBelowTop
    /\ redoCommands = <<pre.undo[2]>>

----------------------------------------------------------------------------
\* redo() has completed and the call before it was an undo() that completed.
RoundTrip ==
    /\ event.op = "redo" /\ event.outcome = "done"
    /\ pre.levels = 1
    /\ pre.last.on

\* C11 (amended): undo() followed immediately by redo(), both completing,
\* leaves both stacks as they were before the undo, provided the undo stack
\* was not empty and its top entry was not a no-op.
C11_RoundTrip ==
    (RoundTrip /\ pre.last.undo # <<>> /\ ~pre.noop[Top(pre.last.undo)]) =>
        /\ undoCommands = pre.last.undo
        /\ redoCommands = pre.last.redo

\* C11 as stated: the same from any quiescent state.
C11_Original ==
    RoundTrip =>
        /\ undoCommands = pre.last.undo
        /\ redoCommands = pre.last.redo

\* A round trip on an undo stack of two with an undone command on the redo
\* stack.
C11_Witness ==
    /\ RoundTrip
    /\ Len(pre.last.undo) = 2
    /\ pre.last.redo # <<>>
    /\ ~pre.noop[Top(pre.last.undo)]
    /\ undoCommands = pre.last.undo

----------------------------------------------------------------------------
\* The step is an accepted call of execute.
ExecuteCalled ==
    /\ event'.kind = "call"
    /\ event'.op = "execute"
    /\ event'.outcome # "rejected"

\* C12: once coalescenceBarrier() was called, the command that was the top of
\* the undo stack at that call never has its coalesce invoked by a later
\* execute.
C12_BarrierHolds ==
    [][ (ExecuteCalled /\ barriered # 0)
          => \A i \in 1 .. Len(log') : log'[i] # <<"coalesce", barriered>> ]_vars

----------------------------------------------------------------------------
\* C13: every undo or redo that completes, also one whose loop body never
\* runs, leaves the flag BARRIERED; the execute called next, and every
\* execute called while the flag is BARRIERED, invokes no coalesce and does
\* not return COALESCED or UNDONE.
C13_UndoRedoBarrier ==
    [][ /\ (event'.op \in {"undo", "redo"} /\ event'.outcome = "done") => ~can_coalesce'
        /\ (ExecuteCalled /\ event.op \in {"undo", "redo"} /\ event.outcome = "done")
              => (NoCoalesceInLog' /\ event'.outcome = "pending")
        /\ (ExecuteCalled /\ ~can_coalesce)
              => (NoCoalesceInLog' /\ event'.outcome = "pending") ]_vars

\* An execute called with undone commands on the redo stack, the timer of the
\* last ADD still pending and a top of the undo stack that declares coalesce:
\* it went straight to its first-time-apply.
C13_Witness ==
    /\ event.kind = "call" /\ event.op = "execute" /\ event.outcome = "pending"
    /\ pre.redo # <<>>
    /\ pre.undo # <<>>
    /\ coalesce[Top(pre.undo)]
    /\ timeoutId = 1
    /\ ~pre.flag
    /\ log = << <<"execute", event.cmd>> >>

----------------------------------------------------------------------------
\* How often the last accepted call ran the cleanup hook.
CleanupCount == Cardinality({i \in 1 .. Len(log) : log[i][1] = "cleanup"})

\* C14: a completed undo or redo runs the cleanup hook exactly once, also
\* when it processed no command, after all its stack changes and while busy
\* is still true; execute, pop, clear, coalescenceBarrier, the timer, a
\* rejected call and an undo or redo that has not completed never run it.
C14_CleanupOnce ==
    [][ /\ (event'.op \in {"undo", "redo"} /\ event'.outcome = "done") =>
              /\ CleanupCount' = 1
              /\ Top(log') = <<"cleanup", 0>>
              /\ atCleanup'.called
              /\ atCleanup'.busy
              /\ atCleanup'.undo = undoCommands'
              /\ atCleanup'.redo = redoCommands'
        /\ (event'.op \in {"undo", "redo"} /\ event'.outcome \in {"pending", "failed"}) =>
              (CleanupCount' = 0 /\ ~atCleanup'.called)
        /\ (event'.op \in {"execute", "pop", "clear"} /\ event'.outcome # "rejected") =>
              (CleanupCount' = 0 /\ ~atCleanup'.called)
        /\ (event'.op \in {"coalescenceBarrier", "timeout"} \/ event'.outcome = "rejected") =>
              (log' = log /\ atCleanup' = atCleanup) ]_vars

\* An undo that reversed two commands and then ran the hook, which saw both
\* on the redo stack and busy still true.
C14_Witness ==
    /\ event.op = "undo" /\ event.outcome = "done"
    /\ atCleanup.called /\ atCleanup.busy
    /\ ~busy
    /\ Len(log) = 3
    /\ Len(atCleanup.redo) = 2

----------------------------------------------------------------------------
\* C15: when a command's apply, reverse or reapply rejects, the busy flag is
\* released, so that later calls are accepted.
C15_ReleasedOnFailure == event.outcome = "failed" => ~busy

----------------------------------------------------------------------------
\* C16: when a command's operation rejects, the failing command stays where
\* it was before the call (a reverse: still the top of the undo stack and not
\* on the redo stack; a reapply: still the top of the redo stack and not on
\* the undo stack; a first-time-apply: on no stack) and the flag is not
\* changed by that step.
C16_FailureKeepsEntry ==
    [][ event'.outcome = "failed" =>
          /\ can_coalesce' = can_coalesce
          /\ event'.op = "undo" =>
                /\ undoCommands' # <<>>
                /\ Top(undoCommands') = event'.cmd
                /\ event'.cmd \notin Range(redoCommands')
          /\ event'.op = "redo" =>
                /\ redoCommands' # <<>>
                /\ Top(redoCommands') = event'.cmd
                /\ event'.cmd \notin Range(undoCommands')
          /\ event'.op = "execute" =>
                /\ event'.cmd \notin Range(undoCommands') \cup Range(redoCommands')
                /\ undoCommands' = pre.undo
                /\ redoCommands' = pre.redo ]_vars

----------------------------------------------------------------------------
\* C17: with coalescenceWindow <= 0 no execute invokes a coalesce or returns
\* COALESCED or UNDONE, the flag is BARRIERED when an execute has resolved,
\* and once BARRIERED it stays so.
C17_WindowOffNoCoalescence ==
    [][ coalescenceWindow <= 0 =>
          /\ NoCoalesceInLog'
          /\ absorbed' = {}
          /\ event'.outcome \notin {"COALESCED", "UNDONE"}
          /\ (event'.op = "execute" /\ event'.outcome \in {"ADD", "CLEAR", "NOOP"})
                => ~can_coalesce'
          /\ ~can_coalesce => ~can_coalesce' ]_vars

\* With a window of 0, an execute right after an ADD whose command declares
\* coalesce went straight to its first-time-apply.
C17_Witness ==
    /\ coalescenceWindow <= 0
    /\ event.op = "execute" /\ event.outcome = "pending"
    /\ pre.lastAdd.cmd # 0
    /\ pre.undo # <<>>
    /\ coalesce[Top(pre.undo)]
    /\ log = << <<"execute", event.cmd>> >>

----------------------------------------------------------------------------
\* C20: whenever busy is false and the flag is ELIGIBLE the redo stack is
\* empty; an execute that is absorbed (COALESCED) or cancels its incumbent
\* (UNDONE) found the redo stack empty and leaves it empty.
C20_EligibleNoRedo ==
    /\ (~busy /\ can_coalesce) => redoCommands = <<>>
    /\ (ExecuteGave("COALESCED") \/ ExecuteGave("UNDONE"))
          => (pre.redo = <<>> /\ redoCommands = <<>>)

\* Quiescent and ELIGIBLE on an undo stack of two, after an ADD that found
\* undone commands on the redo stack.
C20_Witness ==
    /\ ~busy
    /\ can_coalesce
    /\ Len(undoCommands) = 2
    /\ pre.redo # <<>>
    /\ redoCommands = <<>>

----------------------------------------------------------------------------
\* The step is one of those said to end eligibility: a completed undo or redo,
\* a coalescenceBarrier() call, the expiry of the timer, an execute that
\* resolved CLEAR.
Ending ==
    \/ event'.op \in {"undo", "redo"} /\ event'.outcome = "done"
    \/ event'.op = "coalescenceBarrier"
    \/ event'.kind = "timer"
    \/ event'.op = "execute" /\ event'.outcome = "CLEAR"

\* The flag rises only in the step in which an execute resolves ADD, and
\* every ending step leaves it BARRIERED.
FlagStep ==
    /\ (~can_coalesce /\ can_coalesce') => (event'.op = "execute" /\ event'.outcome = "ADD")
    /\ Ending => ~can_coalesce'

\* C18 (amended): the flag is ELIGIBLE in the initial state; after that it
\* becomes ELIGIBLE only when an execute resolves ADD, and it is BARRIERED
\* after every completed undo or redo, coalescenceBarrier() call, timer expiry
\* and CLEAR-result execute.
C18_FlagHistory == (can_coalesce = TRUE) /\ [][FlagStep]_vars

\* C18 as stated: the same, with the flag BARRIERED in the initial state.
C18_Original == (can_coalesce = FALSE) /\ [][FlagStep]_vars

\* The flag rose again with an ADD after an undo had ended eligibility.
C18_Witness ==
    /\ ExecuteGave("ADD")
    /\ can_coalesce
    /\ ~pre.flag
    /\ pre.redo # <<>>

----------------------------------------------------------------------------
NoDuplicates(s) == Cardinality(Range(s)) = Len(s)

\* C19: every command on the undo stack has had its apply or reapply
\* completed and not since been reversed, every command on the redo stack has
\* had its reverse completed and not since been reapplied, no command is on
\* both stacks or twice on one, and the command a suspended operation holds
\* is on neither stack; in every reachable state.
C19_StacksMatchStatus ==
    /\ \A i \in 1 .. Len(undoCommands) : status[undoCommands[i]] = "applied"
    /\ \A i \in 1 .. Len(redoCommands) : status[redoCommands[i]] = "reversed"
    /\ Range(undoCommands) \cap Range(redoCommands) = {}
    /\ NoDuplicates(undoCommands)
    /\ NoDuplicates(redoCommands)
    /\ pc # "idle" => ~OnStack(command) /\ ~OnStack(ncmd)

\* An undo suspended in the reverse of its second command, with commands on
\* both stacks.
C19_Witness ==
    /\ pc = "undo_await"
    /\ status[command] = "applied"
    /\ undoCommands # <<>>
    /\ redoCommands # <<>>
    /\ status[Top(redoCommands)] = "reversed"
    /\ Len(log) = 2

====
